---- MODULE Spec2Model ----
(***************************************************************************)
(* Model of core/handler/loadbalance_handler.go (go-chassis): the load     *)
(* balancing handler LBHandler.  One logical call to Handle is modelled:   *)
(* endpoint selection (getEndpoint), the no-retry path (handleWithNoRetry) *)
(* and the nested retry loop (handleWithRetry) that drives backoff.Retry   *)
(* over the "operation" closure.  The downstream chain, the configuration, *)
(* the strategy registry and the selection engine are the environment.     *)
(***************************************************************************)
EXTENDS Integers, Sequences, FiniteSets, TLC

\* ------------------------------------------------------------------ bounds
\* Largest configured retryOnSame / retryOnNext drawn for a call.
MaxRetryOnSame == 2
MaxRetryOnNext == 2
\* Largest number of downstream handlers one chain.Next walks through.
MaxChainSteps == 1
\* Longest cookie or metadata value given to getSessionID.
MaxValueLen == 3
\* chain.HandlerIndex when the load balancing handler is entered.
StartIndex == 1

\* ------------------------------------------------------------- environment
\* Strategy names.  Registered are the names the strategy registry knows.
StrategyRoundRobin == "RoundRobin"
StrategySessionStickiness == "SessionStickiness"
StrategyUnknown == "Unknown"
Registered == {StrategyRoundRobin, StrategySessionStickiness}
StrategyNames == Registered \cup {StrategyUnknown}

\* Server list filters of the configuration (config.GetServerListFilters).
DefaultFilters == <<"zoneaware">>
GivenFilters == <<"custom">>

\* The registry snapshot: two instances, one with a default protocol.
InsA == [id |-> "A", DefaultProtocol |-> "rest",
         EndpointsMap |-> [p \in {"rest", "grpc"} |->
                              IF p = "rest" THEN "a:1" ELSE "a:2"]]
InsB == [id |-> "B", DefaultProtocol |-> "",
         EndpointsMap |-> [p \in {"grpc", "highway"} |->
                              IF p = "grpc" THEN "b:2" ELSE "b:3"]]
Instances == {InsA, InsB}
\* Further instances for the protocol resolution checked on its own: a
\* default protocol the instance has no endpoint for, and no endpoint at all.
InsC == [id |-> "C", DefaultProtocol |-> "highway",
         EndpointsMap |-> [p \in {"rest"} |-> "c:1"]]
InsE == [id |-> "E", DefaultProtocol |-> "",
         EndpointsMap |-> [p \in {} |-> ""]]
ProtoInstances == Instances \cup {InsC, InsE}
ProtoNames == {"", "rest", "grpc", "highway"}

\* Values of cse.references.<service>.transport ("" : the key is not set).
TransportConfigs == {"", "grpc"}
\* Protocols a caller may request ("" : none requested).
RequestedProtocols == {"", "rest"}

\* ------------------------------------------------------------------ values
\* error values; NoErr is Go's nil error.
NoErr == [kind |-> "nil", protocol |-> "", supported |-> {}]
BuildErr == [kind |-> "BuildStrategy", protocol |-> "", supported |-> {}]
PickErr == [kind |-> "LBError", protocol |-> "", supported |-> {}]
DownErr == [kind |-> "Downstream", protocol |-> "", supported |-> {}]
RetryExpired == [kind |-> "retry times expires", protocol |-> "", supported |-> {}]
NoProtocolErr(p, m) == [kind |-> "NoProtocol", protocol |-> p, supported |-> DOMAIN m]

\* *invocation.Response values: id is the identity of the response object
\* (the number of the chain advance that produced it, 0 for a response
\* built by the handler itself); NilResp is the nil pointer.
NilResp == [id |-> -1, Err |-> NoErr]
EmptyResp == [id |-> 0, Err |-> NoErr]
DownResp(k, o) == IF o = "nil" THEN NilResp
                  ELSE [id |-> k, Err |-> IF o = "err" THEN DownErr ELSE NoErr]
\* What the chain hands to the result callback of one advance.
ChainResults == {"nil", "ok", "err"}

VARIABLES
    pc,               \* position of the handler's flow
    retryEnabled,     \* config.RetryEnabled(source, target)
    retryOnSame,      \* local of handleWithRetry
    retryOnNext,      \* local of handleWithRetry
    cfgStrategy,      \* config.GetStrategyName(source, target), may change
    iStrategy,        \* i.Strategy
    givenStrategy,    \* i.Strategy as the caller passed it
    iFilters,         \* i.Filters
    iProtocol,        \* i.Protocol
    iEndpoint,        \* i.Endpoint
    chainIndex,       \* chain.HandlerIndex
    handlerIndex,     \* local of handleWithRetry
    j,                \* round counter of the outer loop
    callTimes,        \* attempts made in the current round
    ep,               \* endpoint of the current round
    invResp,          \* last captured response
    respErr,          \* local of the running operation
    pending,          \* chain advances whose result callback has not fired
    cbCount,          \* invocations of the caller's callback
    cbResp,           \* response given to the caller's callback
    nSelect,          \* calls of getEndpoint
    nAdvance,         \* calls of chain.Next
    lastAdvanceIndex, \* chain.HandlerIndex at the latest chain.Next
    stratUsed,        \* strategy names the selections looked up
    selErr,           \* error a selection returned
    okSeen,           \* advance whose success the running operation captured
    allSyncErr,       \* every advance delivered a non-nil failed response at once
    stopSeen,         \* the backoff policy signalled Stop
    roundWaits,       \* backoff waits of the current round
    lastAdvanceEndpoint, \* i.Endpoint at the latest chain.Next
    lastResult,       \* what the latest chain.Next did with the callback
    pickedIns,        \* id of the instance the latest selection picked
    overwritten,      \* a downstream handler had written i.Endpoint when
                      \* the chain.Next of the running operation began
    protoCall,        \* inputs of one protocol resolution checked on its own
    protoResult,      \* its outcome
    sessCall,         \* inputs of one call of getSessionID checked on its own
    sessResult        \* the session id it returns

vars == <<pc, retryEnabled, retryOnSame, retryOnNext, cfgStrategy, iStrategy,
          givenStrategy, iFilters, iProtocol, iEndpoint, chainIndex,
          handlerIndex, j, callTimes, ep, invResp, respErr, pending, cbCount,
          cbResp, nSelect, nAdvance, lastAdvanceIndex, stratUsed, selErr,
          okSeen, allSyncErr, stopSeen, roundWaits, lastAdvanceEndpoint,
          lastResult, pickedIns, overwritten, protoCall, protoResult,
          sessCall, sessResult>>

\* The variables of the handler's call.
handlerVars == <<pc, retryEnabled, retryOnSame, retryOnNext, cfgStrategy,
                 iStrategy, givenStrategy, iFilters, iProtocol, iEndpoint,
                 chainIndex, handlerIndex, j, callTimes, ep, invResp, respErr,
                 pending, cbCount, cbResp, nSelect, nAdvance, lastAdvanceIndex,
                 stratUsed, selErr, okSeen, allSyncErr, stopSeen, roundWaits,
                 lastAdvanceEndpoint, lastResult, pickedIns, overwritten>>
\* The variables of the functions checked on their own.
fnVars == <<protoCall, protoResult, sessCall, sessResult>>

obsVars == <<roundWaits, lastAdvanceEndpoint, lastResult, pickedIns,
            overwritten>>

inputVars == <<retryEnabled, retryOnSame, retryOnNext, givenStrategy, fnVars>>
invVars == <<iStrategy, iFilters, iProtocol>>
loopVars == <<handlerIndex, j, callTimes, ep>>

\* No function is being checked on its own.
FnIdle ==
    /\ protoCall = <<>>
    /\ protoResult = <<>>
    /\ sessCall = <<>>
    /\ sessResult = <<>>

\* No call of Handle is running.
HandlerIdle ==
    /\ pc = "Idle"
    /\ retryEnabled = FALSE
    /\ retryOnSame = 0
    /\ retryOnNext = 0
    /\ cfgStrategy = StrategyRoundRobin
    /\ givenStrategy = ""
    /\ iStrategy = ""
    /\ iFilters = <<>>
    /\ iProtocol = ""
    /\ iEndpoint = ""
    /\ chainIndex = StartIndex
    /\ handlerIndex = 0
    /\ j = 0
    /\ callTimes = 0
    /\ ep = ""
    /\ invResp = NilResp
    /\ respErr = NoErr
    /\ pending = {}
    /\ cbCount = 0
    /\ cbResp = NilResp
    /\ nSelect = 0
    /\ nAdvance = 0
    /\ lastAdvanceIndex = 0
    /\ stratUsed = {}
    /\ selErr = NoErr
    /\ okSeen = 0
    /\ allSyncErr = TRUE
    /\ stopSeen = FALSE
    /\ roundWaits = 0
    /\ lastAdvanceEndpoint = ""
    /\ lastResult = "none"
    /\ pickedIns = ""
    /\ overwritten = FALSE

Init ==
    /\ FnIdle
    /\ pc = "Handle"
    /\ retryEnabled \in BOOLEAN
    /\ retryOnSame \in 0..MaxRetryOnSame
    /\ retryOnNext \in 0..MaxRetryOnNext
    /\ cfgStrategy \in StrategyNames
    /\ givenStrategy \in {""} \cup StrategyNames
    /\ iStrategy = givenStrategy
    /\ iFilters \in {<<>>, GivenFilters}
    /\ iProtocol \in RequestedProtocols
    /\ iEndpoint = ""
    /\ chainIndex = StartIndex
    /\ handlerIndex = 0
    /\ j = 0
    /\ callTimes = 0
    /\ ep = ""
    /\ invResp = NilResp
    /\ respErr = NoErr
    /\ pending = {}
    /\ cbCount = 0
    /\ cbResp = NilResp
    /\ nSelect = 0
    /\ nAdvance = 0
    /\ lastAdvanceIndex = 0
    /\ stratUsed = {}
    /\ selErr = NoErr
    /\ okSeen = 0
    /\ allSyncErr = TRUE
    /\ stopSeen = FALSE
    /\ roundWaits = 0
    /\ lastAdvanceEndpoint = ""
    /\ lastResult = "none"
    /\ pickedIns = ""
    /\ overwritten = FALSE

\* ------------------------------------------------------------- getEndpoint
\* Mutant: the name is derived from the configuration on every selection.
ResolvedStrategy_Rederive(strategy, configured) == configured

\* Lines 25-39: the strategy name that is looked up and left in i.Strategy.
ResolvedStrategy(strategy, configured) ==
    IF strategy = "" THEN configured ELSE strategy

\* loadbalancer.GetStrategyPlugin: TRUE when the lookup returns a constructor,
\* FALSE when it returns (nil, error).
GetStrategyPlugin(name) == name \in Registered

\* Lines 40-42.
ResolvedFilters(filters) == IF Len(filters) = 0 THEN DefaultFilters ELSE filters

\* Mutant: a protocol the picked instance has no endpoint for is resolved
\* again, as if none had been set.
ResolvedProtocols_Reresolve(protocol, transport, ins) ==
    LET p1 == IF protocol = "" \/ protocol \notin DOMAIN ins.EndpointsMap
              THEN (IF transport # "" THEN transport ELSE ins.DefaultProtocol)
              ELSE protocol
    IN  IF p1 = "" /\ DOMAIN ins.EndpointsMap # {}
        THEN DOMAIN ins.EndpointsMap
        ELSE {p1}

\* Mutant: an empty protocol is not replaced by a key of the endpoint map.
ResolvedProtocols_NoFallback(protocol, transport, ins) ==
    {IF protocol = ""
     THEN (IF transport # "" THEN transport ELSE ins.DefaultProtocol)
     ELSE protocol}

\* Lines 62-70: the values i.Protocol may hold before the endpoint lookup.
\* transport is the configured preference ("" when not set, so that GetString
\* falls back to the instance's default); ranging over a Go map yields any key.
ResolvedProtocols(protocol, transport, ins) ==
    LET p1 == IF protocol = ""
              THEN (IF transport # "" THEN transport ELSE ins.DefaultProtocol)
              ELSE protocol
    IN  IF p1 = "" /\ DOMAIN ins.EndpointsMap # {}
        THEN DOMAIN ins.EndpointsMap
        ELSE {p1}

\* Lines 71-79: the endpoint lookup for the resolved protocol p.
EndpointLookup(p, ins) ==
    IF p \in DOMAIN ins.EndpointsMap
    THEN [kind |-> "ok", ep |-> ins.EndpointsMap[p], err |-> NoErr]
    ELSE [kind |-> "err", ep |-> "", err |-> NoProtocolErr(p, ins.EndpointsMap)]

\* Lines 22-80: every outcome of one call of getEndpoint in the current
\* state, with the fields of the invocation as the call leaves them.  A failed
\* strategy lookup leaves strategyFun nil, and line 50 calls it: the call
\* panics ("panic").  BuildStrategy and Pick may fail for reasons of the
\* selection engine.
getEndpoint ==
    LET name == ResolvedStrategy(iStrategy, cfgStrategy)
        filters == ResolvedFilters(iFilters)
        base == [kind |-> "panic", ep |-> "", err |-> NoErr, Strategy |-> name,
                 Filters |-> filters, Protocol |-> iProtocol, ins |-> ""]
    IN  IF ~GetStrategyPlugin(name)
        THEN {base}
        ELSE {[base EXCEPT !.kind = "err", !.err = BuildErr],
              [base EXCEPT !.kind = "err", !.err = PickErr]}
             \cup
             {[base EXCEPT !.kind = EndpointLookup(p, ins).kind,
                           !.ep = EndpointLookup(p, ins).ep,
                           !.err = EndpointLookup(p, ins).err,
                           !.Protocol = p,
                           !.ins = ins.id] :
                <<p, ins>> \in UNION {ResolvedProtocols(iProtocol, t, i) \X {i} :
                                        <<t, i>> \in TransportConfigs \X Instances}}

\* The effect of one call of getEndpoint with outcome o on the invocation.
Selected(o) ==
    /\ iStrategy' = o.Strategy
    /\ iFilters' = o.Filters
    /\ iProtocol' = o.Protocol
    /\ nSelect' = nSelect + 1
    /\ stratUsed' = stratUsed \cup {o.Strategy}
    /\ selErr' = IF o.kind = "err" THEN o.err ELSE selErr
    /\ pickedIns' = o.ins

\* ------------------------------------------------------------------ helpers
\* writeErr(err, cb): the response handed to cb.
writeErr(err) == [id |-> 0, Err |-> err]

\* Mutant: Handle always takes the retry path.
UseRetry_Always(enabled) == TRUE

\* Line 84.
UseRetry(enabled) == enabled

\* Mutant: a failed selection leaves the loop and delivers what was captured.
SelectionFailureResponse_Captured(err, captured) ==
    IF captured = NilResp THEN EmptyResp ELSE captured

\* Lines 110-114: what the caller's callback gets when a round's selection
\* fails; captured is invResp.
SelectionFailureResponse(err, captured) == writeErr(err)

\* Mutant: the outer loop runs one round less.
RoundsLeft_OffByOne(round, onNext) == round < onNext

\* Line 107.
RoundsLeft(round, onNext) == round < onNext + 1

\* Mutant: the attempt limit is checked one call late.
AttemptsExpired_OffByOne(times, onSame) == times = onSame + 2

\* Line 119.
AttemptsExpired(times, onSame) == times = onSame + 1

\* Mutant: the chain position is not reset before the attempt.
ResetIndex_Missing(captured, current) == current

\* Line 125: the value chain.HandlerIndex gets before chain.Next.
ResetIndex(captured, current) == captured

\* Mutant: the endpoint of the round is not written back before the attempt.
SetEndpoint_Missing(selected, current) == current

\* Line 123: the value i.Endpoint gets before chain.Next.
SetEndpoint(selected, current) == selected

\* Mutant: handleWithNoRetry advances the chain without setting the endpoint.
NoRetryEndpoint_Missing(selected, current) == current

\* Line 98: the value i.Endpoint gets before chain.Next.
NoRetryEndpoint(selected, current) == selected

\* Mutant: respErr is declared outside the operation and keeps its value.
FreshRespErr_Hoisted(old) == old

\* Line 124: respErr is a new variable, nil, in every call of the operation.
FreshRespErr(old) == NoErr

\* An endpoint a downstream handler may write into i.Endpoint.
ChainEndpoint == "chain:0"

\* Lines 126-133: the result callback of an attempt, given response r.
Captured(r, old) == IF r # NilResp THEN r ELSE old
CapturedErr(r, old) == IF r # NilResp THEN r.Err ELSE old

\* Mutant: the loop breaks on an error instead of on success.
BreaksLoop_Inverted(err) == err # NoErr

\* Line 136: backoff.Retry returned nil, so the loop breaks.
BreaksLoop(err) == err = NoErr

\* Lines 140-143.
FinalResponse(resp) == IF resp = NilResp THEN EmptyResp ELSE resp

\* ------------------------------------------------------------------ actions
\* The configured default strategy changes.  It is read only by getEndpoint,
\* so a change matters only where a selection follows.
ConfigChange ==
    /\ pc = "Round"
    /\ cfgStrategy' \in StrategyNames \ {cfgStrategy}
    /\ UNCHANGED <<obsVars,
                   pc, inputVars, invVars, iEndpoint, chainIndex, loopVars,
                   invResp, respErr, pending, cbCount, cbResp, nSelect,
                   nAdvance, lastAdvanceIndex, stratUsed, selErr, okSeen,
                   allSyncErr, stopSeen>>

\* Lines 83-85, 91-100: Handle with retries disabled.  chain.Next gets the
\* caller's callback, which the chain calls at once or later.
HandleWithNoRetry ==
    /\ pc = "Handle"
    /\ ~UseRetry(retryEnabled)
    /\ \E o \in getEndpoint :
        /\ Selected(o)
        /\ \/ /\ o.kind = "panic"
              /\ pc' = "Panic"
              /\ UNCHANGED <<iEndpoint, chainIndex, pending, cbCount, cbResp,
                             nAdvance, lastAdvanceIndex, allSyncErr,
                             lastAdvanceEndpoint, lastResult>>
           \/ /\ o.kind = "err"
              /\ cbCount' = cbCount + 1
              /\ cbResp' = writeErr(o.err)
              /\ pc' = "Done"
              /\ UNCHANGED <<iEndpoint, chainIndex, pending, nAdvance,
                             lastAdvanceIndex, allSyncErr,
                             lastAdvanceEndpoint, lastResult>>
           \/ /\ o.kind = "ok"
              /\ lastAdvanceEndpoint' = NoRetryEndpoint(o.ep, iEndpoint)
              /\ iEndpoint' \in {lastAdvanceEndpoint', ChainEndpoint}
              /\ nAdvance' = nAdvance + 1
              /\ lastAdvanceIndex' = chainIndex
              /\ \E d \in 0..MaxChainSteps : chainIndex' = chainIndex + d
              /\ \/ \E res \in ChainResults :
                      /\ cbCount' = cbCount + 1
                      /\ cbResp' = DownResp(nAdvance', res)
                      /\ allSyncErr' = (allSyncErr /\ res = "err")
                      /\ lastResult' = res
                      /\ UNCHANGED pending
                 \/ /\ pending' = pending \cup {nAdvance'}
                    /\ allSyncErr' = FALSE
                    /\ lastResult' = "deferred"
                    /\ UNCHANGED <<cbCount, cbResp>>
              /\ pc' = "Done"
    /\ UNCHANGED <<roundWaits, overwritten,
                   inputVars, cfgStrategy, loopVars, invResp, respErr, okSeen,
                   stopSeen>>

\* Lines 83-87, 102-106: Handle with retries enabled enters handleWithRetry.
HandleWithRetry ==
    /\ pc = "Handle"
    /\ UseRetry(retryEnabled)
    /\ handlerIndex' = chainIndex
    /\ invResp' = NilResp
    /\ j' = 0
    /\ pc' = "Round"
    /\ UNCHANGED <<obsVars,
                   inputVars, cfgStrategy, invVars, iEndpoint, chainIndex,
                   callTimes, ep, respErr, pending, cbCount, cbResp, nSelect,
                   nAdvance, lastAdvanceIndex, stratUsed, selErr, okSeen,
                   allSyncErr, stopSeen>>

\* Lines 107-117: a round starts with a selection.
RoundSelect ==
    /\ pc = "Round"
    /\ RoundsLeft(j, retryOnNext)
    /\ \E o \in getEndpoint :
        /\ Selected(o)
        /\ roundWaits' = IF o.kind = "ok" THEN 0 ELSE roundWaits
        /\ \/ /\ o.kind = "panic"
              /\ pc' = "Panic"
              /\ UNCHANGED <<cbCount, cbResp, ep, callTimes>>
           \/ /\ o.kind = "err"
              /\ cbCount' = cbCount + 1
              /\ cbResp' = SelectionFailureResponse(o.err, invResp)
              /\ pc' = "Done"
              /\ UNCHANGED <<ep, callTimes>>
           \/ /\ o.kind = "ok"
              /\ ep' = o.ep
              /\ callTimes' = 0
              /\ pc' = "Operation"
              /\ UNCHANGED <<cbCount, cbResp>>
    /\ UNCHANGED <<lastAdvanceEndpoint, lastResult, overwritten,
                   inputVars, cfgStrategy, iEndpoint, chainIndex, handlerIndex,
                   j, invResp, respErr, pending, nAdvance, lastAdvanceIndex,
                   okSeen, allSyncErr, stopSeen>>

\* Line 107: the loop condition fails after the last round.
RoundsExhausted ==
    /\ pc = "Round"
    /\ ~RoundsLeft(j, retryOnNext)
    /\ pc' = "Deliver"
    /\ UNCHANGED <<obsVars,
                   inputVars, cfgStrategy, invVars, iEndpoint, chainIndex,
                   loopVars, invResp, respErr, pending, cbCount, cbResp,
                   nSelect, nAdvance, lastAdvanceIndex, stratUsed, selErr,
                   okSeen, allSyncErr, stopSeen>>

\* Lines 119-121, 136-138: the operation returns the permanent error, Retry
\* returns it without asking the backoff policy, and the next round follows.
OperationExpired ==
    /\ pc = "Operation"
    /\ AttemptsExpired(callTimes, retryOnSame)
    /\ j' = j + 1
    /\ pc' = "Round"
    /\ UNCHANGED <<obsVars,
                   inputVars, cfgStrategy, invVars, iEndpoint, chainIndex,
                   handlerIndex, callTimes, ep, invResp, respErr, pending,
                   cbCount, cbResp, nSelect, nAdvance, lastAdvanceIndex,
                   stratUsed, selErr, okSeen, allSyncErr, stopSeen>>

\* Lines 122-133: one attempt.  The chain calls the result callback inside
\* chain.Next, or keeps it to call it later (pending).
OperationAdvance ==
    /\ pc = "Operation"
    /\ ~AttemptsExpired(callTimes, retryOnSame)
    /\ callTimes' = callTimes + 1
    /\ lastAdvanceEndpoint' = SetEndpoint(ep, iEndpoint)
    /\ overwritten' = (iEndpoint = ChainEndpoint)
    /\ iEndpoint' \in {lastAdvanceEndpoint', ChainEndpoint}
    /\ nAdvance' = nAdvance + 1
    /\ lastAdvanceIndex' = ResetIndex(handlerIndex, chainIndex)
    /\ \E d \in 0..MaxChainSteps : chainIndex' = lastAdvanceIndex' + d
    /\ \/ \E res \in ChainResults :
            /\ invResp' = Captured(DownResp(nAdvance', res), invResp)
            /\ respErr' = CapturedErr(DownResp(nAdvance', res),
                                      FreshRespErr(respErr))
            /\ okSeen' = IF res = "ok" THEN nAdvance' ELSE okSeen
            /\ allSyncErr' = (allSyncErr /\ res = "err")
            /\ lastResult' = res
            /\ UNCHANGED pending
       \/ /\ pending' = pending \cup {nAdvance'}
          /\ respErr' = FreshRespErr(respErr)
          /\ allSyncErr' = FALSE
          /\ lastResult' = "deferred"
          /\ UNCHANGED <<invResp, okSeen>>
    /\ pc' = "OpReturn"
    /\ UNCHANGED <<roundWaits, pickedIns,
                   inputVars, cfgStrategy, invVars, handlerIndex, j, ep,
                   cbCount, cbResp, nSelect, stratUsed, selErr, stopSeen>>

\* The chain calls a result callback it kept.  In retry mode it is the closure
\* of lines 126-133, which writes invResp, and respErr of its own operation;
\* with retries disabled it is the caller's callback.
FireCallback ==
    /\ \E k \in pending, res \in ChainResults :
        /\ pending' = pending \ {k}
        /\ IF UseRetry(retryEnabled)
           THEN /\ invResp' = Captured(DownResp(k, res), invResp)
                /\ IF pc = "OpReturn" /\ k = nAdvance
                   THEN /\ respErr' = CapturedErr(DownResp(k, res), respErr)
                        /\ okSeen' = IF res = "ok" THEN k ELSE okSeen
                   ELSE UNCHANGED <<respErr, okSeen>>
                /\ UNCHANGED <<cbCount, cbResp>>
           ELSE /\ cbCount' = cbCount + 1
                /\ cbResp' = DownResp(k, res)
                /\ UNCHANGED <<invResp, respErr, okSeen>>
    /\ UNCHANGED <<obsVars,
                   pc, inputVars, cfgStrategy, invVars, iEndpoint, chainIndex,
                   loopVars, nSelect, nAdvance, lastAdvanceIndex, stratUsed,
                   selErr, allSyncErr, stopSeen>>

\* Lines 134, 136-137: the operation returns nil, Retry returns nil, break.
OperationSucceeded ==
    /\ pc = "OpReturn"
    /\ BreaksLoop(respErr)
    /\ overwritten' = FALSE
    /\ pc' = "Deliver"
    /\ UNCHANGED <<roundWaits, lastAdvanceEndpoint, lastResult, pickedIns,
                   inputVars, cfgStrategy, invVars, iEndpoint, chainIndex,
                   loopVars, invResp, respErr, pending, cbCount, cbResp,
                   nSelect, nAdvance, lastAdvanceIndex, stratUsed, selErr,
                   okSeen, allSyncErr, stopSeen>>

\* Lines 134, 136: the operation returns an error and the backoff policy
\* gives a delay: Retry waits and calls the operation again.
BackOffWait ==
    /\ pc = "OpReturn"
    /\ ~BreaksLoop(respErr)
    /\ roundWaits' = roundWaits + 1
    /\ overwritten' = FALSE
    /\ pc' = "Operation"
    /\ UNCHANGED <<lastAdvanceEndpoint, lastResult, pickedIns,
                   inputVars, cfgStrategy, invVars, iEndpoint, chainIndex,
                   loopVars, invResp, respErr, pending, cbCount, cbResp,
                   nSelect, nAdvance, lastAdvanceIndex, stratUsed, selErr,
                   okSeen, allSyncErr, stopSeen>>

\* Lines 134, 136-138: the operation returns an error and the backoff policy
\* signals Stop: Retry returns the error and the next round follows.
BackOffStop ==
    /\ pc = "OpReturn"
    /\ ~BreaksLoop(respErr)
    /\ stopSeen' = TRUE
    /\ overwritten' = FALSE
    /\ j' = j + 1
    /\ pc' = "Round"
    /\ UNCHANGED <<roundWaits, lastAdvanceEndpoint, lastResult, pickedIns,
                   inputVars, cfgStrategy, invVars, iEndpoint, chainIndex,
                   handlerIndex, callTimes, ep, invResp, respErr, pending,
                   cbCount, cbResp, nSelect, nAdvance, lastAdvanceIndex,
                   stratUsed, selErr, okSeen, allSyncErr>>

\* Lines 140-143.
Deliver ==
    /\ pc = "Deliver"
    /\ cbResp' = FinalResponse(invResp)
    /\ cbCount' = cbCount + 1
    /\ pc' = "Done"
    /\ UNCHANGED <<obsVars,
                   inputVars, cfgStrategy, invVars, iEndpoint, chainIndex,
                   loopVars, invResp, respErr, pending, nSelect, nAdvance,
                   lastAdvanceIndex, stratUsed, selErr, okSeen, allSyncErr,
                   stopSeen>>

Next ==
    \/ ConfigChange
    \/ HandleWithNoRetry
    \/ HandleWithRetry
    \/ RoundSelect
    \/ RoundsExhausted
    \/ OperationExpired
    \/ OperationAdvance
    \/ FireCallback
    \/ OperationSucceeded
    \/ BackOffWait
    \/ BackOffStop
    \/ Deliver

Spec == Init /\ [][Next]_vars

\* ------------------------------------------- protocol resolution on its own
\* Lines 61-79 of getEndpoint for any requested protocol, configured
\* transport and picked instance.
ProtoInit ==
    /\ HandlerIdle
    /\ protoCall \in [protocol : ProtoNames, transport : ProtoNames,
                      ins : ProtoInstances]
    /\ protoResult = <<>>
    /\ sessCall = <<>>
    /\ sessResult = <<>>

ResolveProtocol ==
    /\ protoCall # <<>>
    /\ protoResult = <<>>
    /\ \E p \in ResolvedProtocols(protoCall.protocol, protoCall.transport,
                                  protoCall.ins) :
        protoResult' = [Protocol |-> p,
                        kind |-> EndpointLookup(p, protoCall.ins).kind,
                        ep |-> EndpointLookup(p, protoCall.ins).ep,
                        err |-> EndpointLookup(p, protoCall.ins).err]
    /\ UNCHANGED <<handlerVars, protoCall, sessCall, sessResult>>

ProtoSpec == ProtoInit /\ [][ResolveProtocol]_vars

\* ------------------------------------------------------ getSessionID on its own
\* Strings are sequences of characters; "=" separates key and value.
Chars == {"a", "="}
Values == UNION {[1..n -> Chars] : n \in 0..MaxValueLen}

\* strings.Index(s, c) for a one-character c that occurs in s.
FirstIndex(s, c) ==
    CHOOSE i \in 1..Len(s) : s[i] = c /\ \A k \in 1..(i - 1) : s[k] # c

\* strings.Split(s, c): the pieces of s between the occurrences of c.
RECURSIVE Split(_, _)
Split(s, c) ==
    IF \A i \in 1..Len(s) : s[i] # c
    THEN <<s>>
    ELSE <<SubSeq(s, 1, FirstIndex(s, c) - 1)>>
         \o Split(SubSeq(s, FirstIndex(s, c) + 1, Len(s)), c)

\* Lines 155-180.  isRest: i.Args is a *rest.Request; cookie: what
\* req.GetCookie(common.LBSessionID) returns; metadata: what
\* session.GetContextMetadata(i.Ctx, common.LBSessionID) returns.
getSessionID(isRest, cookie, metadata) ==
    IF isRest
    THEN cookie
    ELSE IF metadata # <<>> /\ Len(Split(metadata, "=")) > 1
         THEN Split(metadata, "=")[2]
         ELSE <<>>

SessionInit ==
    /\ HandlerIdle
    /\ protoCall = <<>>
    /\ protoResult = <<>>
    /\ sessCall \in [isRest : BOOLEAN, cookie : Values, metadata : Values]
    /\ sessResult = <<"?">>

GetSessionID ==
    /\ sessCall # <<>>
    /\ sessResult = <<"?">>
    /\ sessResult' = getSessionID(sessCall.isRest, sessCall.cookie,
                                  sessCall.metadata)
    /\ UNCHANGED <<handlerVars, protoCall, protoResult, sessCall>>

SessionSpec == SessionInit /\ [][GetSessionID]_vars

\* ------------------------------------------------------------------- claims
\* C1: in retry mode, when every selection succeeds, the backoff policy never
\* signals Stop and every chain advance delivers at once a non-nil response
\* carrying an error, the finished call has advanced the chain exactly
\* (retryOnNext+1)*(retryOnSame+1) times and the caller's callback got the
\* response of the last advance, with its error.
C1_AlwaysFailingDownstream ==
    (retryEnabled /\ pc = "Done" /\ selErr = NoErr /\ ~stopSeen /\ allSyncErr)
    => /\ nAdvance = (retryOnNext + 1) * (retryOnSame + 1)
       /\ cbCount = 1
       /\ cbResp = [id |-> nAdvance, Err |-> DownErr]

C1_Witness ==
    /\ retryEnabled /\ pc = "Done" /\ selErr = NoErr /\ ~stopSeen /\ allSyncErr
    /\ retryOnNext >= 1 /\ retryOnSame >= 1
    /\ nAdvance = (retryOnNext + 1) * (retryOnSame + 1)

\* C2: in retry mode, once an attempt has captured a response with no error
\* (okSeen names its advance), no step makes a further selection, chain
\* advance or round, and the call ends with exactly one invocation of the
\* caller's callback, with that success response.
C2_SuccessStopsLoop ==
    [][(retryEnabled /\ okSeen # 0)
       => /\ nSelect' = nSelect
          /\ nAdvance' = nAdvance
          /\ j' = j
          /\ pc' \in {"Deliver", "Done"}
          /\ (pc' = "Done" => /\ cbCount' = 1
                              /\ cbResp' = [id |-> okSeen, Err |-> NoErr])]_vars

C2_Witness ==
    /\ retryEnabled /\ pc = "Done" /\ okSeen # 0
    /\ j >= 1 /\ callTimes >= 2
    /\ j < retryOnNext /\ callTimes < retryOnSame + 1
    /\ cbResp = [id |-> okSeen, Err |-> NoErr]

\* C3: in retry mode, once a round's selection has returned an error, the
\* call is over: the caller's callback was invoked once with a response
\* carrying that selection error (not the retry-times-expired marker, not a
\* downstream error), and no step makes a further selection, chain advance or
\* round.
C3_SelectionFailureEndsCall ==
    /\ [](retryEnabled /\ selErr # NoErr
          => /\ pc = "Done"
             /\ cbCount = 1
             /\ cbResp = writeErr(selErr)
             /\ cbResp.Err \notin {NoErr, RetryExpired, DownErr})
    /\ [][(retryEnabled /\ selErr # NoErr)
          => /\ nSelect' = nSelect
             /\ nAdvance' = nAdvance
             /\ j' = j]_vars

C3_Witness ==
    /\ retryEnabled /\ selErr # NoErr
    /\ j >= 1 /\ nAdvance >= 2
    /\ invResp = [id |-> nAdvance, Err |-> DownErr]
    /\ cbResp = writeErr(selErr)

\* C4: with retries disabled, Handle makes one selection and at most one
\* chain advance, whatever the selection and the downstream report.
C4_NoRetryOneSelection ==
    ~retryEnabled
    => /\ nSelect <= 1
       /\ nAdvance <= 1
       /\ (pc # "Handle" => nSelect = 1)

C4_Witness ==
    /\ ~retryEnabled /\ pc = "Done"
    /\ nSelect = 1 /\ nAdvance = 1 /\ cbCount = 1
    /\ cbResp.Err = DownErr

\* C5: for every call the caller's callback is invoked at most once, and a
\* call that fails in selection (strategy lookup included) is reported to the
\* caller as a response carrying the error, never as a panic.
C5_ErrorsReachCallerOnce ==
    /\ cbCount <= 1
    /\ (pc = "Panic" \/ selErr # NoErr) => (cbCount = 1 /\ cbResp.Err # NoErr)

\* C6: in retry mode, at every chain advance chain.HandlerIndex has the value
\* it had when the retry sequence began.
C6_ChainPositionReset ==
    (retryEnabled /\ nAdvance > 0)
    => /\ lastAdvanceIndex = StartIndex
       /\ handlerIndex = StartIndex

C6_Witness ==
    /\ retryEnabled /\ pc = "OpReturn"
    /\ j >= 1 /\ callTimes >= 2
    /\ chainIndex > StartIndex
    /\ lastAdvanceIndex = StartIndex

\* C7: when the strategy lookup fails for the call's strategy name, the call
\* does not panic: getEndpoint returns an error and the caller's callback
\* gets a response carrying it.
C7_LookupFailureIsSelectionError ==
    (nSelect > 0 /\ ~GetStrategyPlugin(iStrategy))
    => /\ pc # "Panic"
       /\ selErr # NoErr
       /\ cbCount = 1
       /\ cbResp = writeErr(selErr)

\* C8: in retry mode the handler decides about a retry and delivers the
\* final response only after the result callback of the current chain
\* advance has fired: outside the running operation no result is pending.
C8_DecidesAfterCallback ==
    (retryEnabled /\ pc \in {"Round", "Operation", "Deliver", "Done"})
    => pending = {}

\* C9: once i.Strategy is non-empty, no step changes it and every selection
\* looks up that name, whatever the configured default is by then.
C9_StrategyPinned ==
    [][iStrategy # ""
       => /\ iStrategy' = iStrategy
          /\ stratUsed' \subseteq {iStrategy}]_vars

C9_Witness ==
    /\ givenStrategy = "" /\ nSelect >= 2
    /\ pc \in {"Operation", "OpReturn"}
    /\ cfgStrategy # iStrategy
    /\ stratUsed = {iStrategy}

\* C10: in retry mode a round makes at most retryOnSame+1 chain advances,
\* the call makes at most retryOnNext+1 selections, and at most
\* (retryOnNext+1)*(retryOnSame+1) chain advances in all.
C10_AttemptsBounded ==
    retryEnabled
    => /\ callTimes <= retryOnSame + 1
       /\ j <= retryOnNext + 1
       /\ nSelect <= retryOnNext + 1
       /\ nAdvance <= (retryOnNext + 1) * (retryOnSame + 1)

C10_Witness ==
    /\ retryEnabled
    /\ retryOnNext >= 1 /\ retryOnSame >= 1
    /\ callTimes = retryOnSame + 1
    /\ nSelect = retryOnNext + 1
    /\ nAdvance = (retryOnNext + 1) * (retryOnSame + 1)
    /\ stopSeen = FALSE /\ allSyncErr = FALSE

\* C11: in retry mode every call that has come to its end has invoked the
\* caller's callback once, with the last captured response or, when none was
\* captured, an empty response (a failed selection delivers its error).
C11_CallEndsWithResponse ==
    (retryEnabled /\ pc \in {"Done", "Panic"})
    => /\ cbCount = 1
       /\ cbResp # NilResp
       /\ (selErr = NoErr => (cbResp = EmptyResp \/ cbResp.id \in 1..nAdvance))

\* C12: for a picked instance with a non-empty endpoint map: with no
\* requested protocol, no configured transport and no default protocol the
\* selection returns, without error, an endpoint that is a value of the map;
\* when the resolved protocol is not a key of the map the selection returns no
\* endpoint and an error naming that protocol (the requested one, when one
\* was requested) and the protocols of the map.
C12_ProtocolResolution ==
    (protoResult # <<>> /\ DOMAIN protoCall.ins.EndpointsMap # {})
    => LET m == protoCall.ins.EndpointsMap
           r == protoResult
       IN  /\ (/\ protoCall.protocol = ""
               /\ protoCall.transport = ""
               /\ protoCall.ins.DefaultProtocol = "")
              => /\ r.kind = "ok"
                 /\ r.err = NoErr
                 /\ \E k \in DOMAIN m : r.ep = m[k]
           /\ r.Protocol \notin DOMAIN m
              => /\ r.kind = "err"
                 /\ r.ep = ""
                 /\ r.err.kind = "NoProtocol"
                 /\ r.err.protocol = r.Protocol
                 /\ r.err.supported = DOMAIN m
                 /\ (protoCall.protocol # "" => r.err.protocol = protoCall.protocol)

C12_Witness ==
    /\ protoResult # <<>>
    /\ protoCall = [protocol |-> "", transport |-> "", ins |-> InsB]
    /\ protoResult.Protocol = "highway"
    /\ protoResult.ep = "b:3"

\* C13: getSessionID returns the cookie value for a transport-native
\* request; otherwise, for a metadata value of the form key=value (a key
\* that is not empty, then "="), what follows its first "="; and the empty
\* string when neither gives a value.
C13_SessionToken ==
    sessResult # <<"?">>
    => LET md == sessCall.metadata
           hasEq == \E i \in 2..Len(md) : md[i] = "=" /\ md[1] # "="
       IN  /\ sessCall.isRest => sessResult = sessCall.cookie
           /\ (~sessCall.isRest /\ hasEq)
              => sessResult = SubSeq(md, FirstIndex(md, "=") + 1, Len(md))
           /\ (~sessCall.isRest /\ md = <<>>) => sessResult = <<>>

\* C14: in retry mode, when the sequence ended because the last attempt was
\* taken as successful (it got a response with no error, or a nil response),
\* the caller's callback got the response of that attempt, or an empty one,
\* and never a response captured from an earlier failed attempt.
C14_SuccessDeliversOwnResponse ==
    (/\ retryEnabled /\ pc = "Done" /\ selErr = NoErr
     /\ nAdvance > 0 /\ respErr = NoErr /\ lastResult \in {"ok", "nil"})
    => cbResp \in {EmptyResp, [id |-> nAdvance, Err |-> NoErr]}

\* C15: in retry mode a backoff wait happens only between two attempts on the
\* same instance: a round performs at most retryOnSame waits, every wait
\* follows a failed chain advance, and after a wait the operation advances the
\* chain again instead of returning the retry-times-expired marker.
C15_BackoffOnlyBetweenAttempts ==
    retryEnabled
    => /\ roundWaits <= retryOnSame
       /\ (roundWaits > 0 => nAdvance > 0)
       /\ (pc = "Operation" /\ roundWaits > 0
           => ~AttemptsExpired(callTimes, retryOnSame))

\* C16: in retry mode the selections made so far are one per round begun:
\* none is made between the attempts of a round; and at every chain advance
\* i.Endpoint is the endpoint the round's selection resolved (the address of
\* the picked instance for the call's protocol), also when a downstream
\* handler had overwritten i.Endpoint during an earlier attempt.
C16_OneSelectionPerRound ==
    retryEnabled
    => /\ (pc = "Round" => nSelect = j)
       /\ (pc \in {"Operation", "OpReturn"} => nSelect = j + 1)
       /\ (pc = "OpReturn"
           => /\ lastAdvanceEndpoint = ep
              /\ \E ins \in Instances :
                    /\ ins.id = pickedIns
                    /\ iProtocol \in DOMAIN ins.EndpointsMap
                    /\ ep = ins.EndpointsMap[iProtocol])

C16_Witness ==
    /\ retryEnabled /\ pc = "OpReturn"
    /\ j >= 1 /\ callTimes >= 2 /\ nSelect = j + 1
    /\ overwritten
    /\ lastAdvanceEndpoint = ep /\ ep = "b:2"

\* C17: attempts of one call never overlap: at most one chain advance is
\* waiting for its result callback, and none is waiting where the next
\* attempt or the next round starts, whether the chain fires the callback
\* inside chain.Next or later.
C17_AttemptsSequential ==
    /\ Cardinality(pending) <= 1
    /\ (pc \in {"Round", "Operation"} => pending = {})

C17_Witness ==
    /\ retryEnabled /\ pc = "Operation"
    /\ lastResult = "deferred" /\ pending = {}
    /\ callTimes >= 1 /\ ~AttemptsExpired(callTimes, retryOnSame)
    /\ invResp = [id |-> nAdvance, Err |-> DownErr]

\* C18: with retries disabled, a selection error goes to the caller's
\* callback at once (one invocation, a response carrying that error), with no
\* chain advance and i.Endpoint as it was; after a successful selection the
\* chain is advanced once, with i.Endpoint already set to the address of the
\* picked instance, and the caller's own callback is what the chain holds or
\* has called, so the caller gets exactly what the chain delivered, a nil
\* response included.
C18_NoRetryForwards ==
    ~retryEnabled
    => /\ (selErr # NoErr
           => /\ pc = "Done" /\ nAdvance = 0 /\ pending = {}
              /\ iEndpoint = ""
              /\ cbCount = 1 /\ cbResp = writeErr(selErr))
       /\ (nAdvance > 0
           => /\ nAdvance = 1 /\ nSelect = 1 /\ selErr = NoErr
              /\ \E ins \in Instances :
                    /\ ins.id = pickedIns
                    /\ iProtocol \in DOMAIN ins.EndpointsMap
                    /\ lastAdvanceEndpoint = ins.EndpointsMap[iProtocol]
              /\ cbCount + Cardinality(pending) = 1
              /\ (cbCount = 1
                  => cbResp \in {DownResp(1, res) : res \in ChainResults})
              /\ (lastResult # "deferred"
                  => cbResp = DownResp(1, lastResult)))

C18_Witness ==
    /\ ~retryEnabled /\ pc = "Done"
    /\ nAdvance = 1 /\ lastAdvanceEndpoint = "a:1"
    /\ iEndpoint = ChainEndpoint
    /\ lastResult = "nil" /\ cbCount = 1 /\ cbResp = NilResp

\* C19: once i.Protocol is not empty no step of the call changes it; and when
\* a selection picks an instance that has no endpoint for it, the selection
\* returns the protocol-mismatch error for that protocol and the keys of the
\* instance's map, the call is over, and the caller's callback got that error.
C19_ProtocolPinned ==
    /\ [][iProtocol # "" => iProtocol' = iProtocol]_vars
    /\ [](\A ins \in Instances :
            (ins.id = pickedIns /\ iProtocol \notin DOMAIN ins.EndpointsMap)
            => /\ selErr = NoProtocolErr(iProtocol, ins.EndpointsMap)
               /\ pc = "Done"
               /\ cbCount = 1 /\ cbResp = writeErr(selErr))

C19_Witness ==
    /\ retryEnabled /\ pc = "Done"
    /\ nSelect >= 2 /\ nAdvance >= 1
    /\ iProtocol = "highway" /\ pickedIns = "A"
    /\ selErr = NoProtocolErr("highway", InsA.EndpointsMap)
    /\ cbResp = writeErr(selErr)

====
